---- MODULE Spec2Model ----
(***************************************************************************)
(* A model of solcast/nodes.py: the construction of a node tree from the   *)
(* compiler's JSON AST (node_class_factory, NodeBase.__init__) and the     *)
(* queries on a built tree (children, parents, parent, is_child_of,        *)
(* is_parent_of, get, IterableNodeBase.__len__).                           *)
(*                                                                         *)
(* Python values are tagged records, so that values of different Python    *)
(* types are always comparable:                                            *)
(*   None, bool, int, str (an atomic string), chars (a str the code looks  *)
(*   inside: the "src" location, a sequence of one-character strings),     *)
(*   list, tuple, dict (a function from keys to values) and node (a        *)
(*   reference to a NodeBase instance, by its identity).                   *)
(* The identity of a node is the path of (key, index) steps that leads to  *)
(* it from the root; index 0 is a dict-valued attribute, 1.. a list        *)
(* element.  Python compares nodes by identity (NodeBase defines __hash__  *)
(* but no __eq__), so two nodes are equal exactly when their paths are.    *)
(***************************************************************************)
EXTENDS Integers, Sequences, FiniteSets, TLC

VARIABLES
    ast,    \* the JSON object handed to node_class_factory
    tree,   \* the result of the build: the nodes, or the exception raised
    pc,     \* "new", then "built" or "failed", then "returned" after a query
    call,   \* the last query made on the tree, with its arguments
    ret     \* what that query returned, or the exception it raised

vars == <<ast, tree, pc, call, ret>>

-----------------------------------------------------------------------------
(* Python values *)

None == [t |-> "None"]
PyBool(b) == [t |-> "bool", b |-> b]
PyInt(i) == [t |-> "int", i |-> i]
PyStr(s) == [t |-> "str", s |-> s]
PyChars(c) == [t |-> "chars", c |-> c]
PyList(items) == [t |-> "list", items |-> items]
PyTuple(items) == [t |-> "tuple", tup |-> items]
PyDict(d) == [t |-> "dict", d |-> d]
NodeRef(id) == [t |-> "node", id |-> id]

EmptyDict == PyDict(<<>>)

\* The path of the root node, and the _parent of the root (Python's None).
RootId == <<>>
NoNode == << <<"None", -1>> >>

\* A raised exception, as the result of an operation.
Raise(e) == [exc |-> e]
Return(v) == [exc |-> "", val |-> v]
Raised(r) == r.exc # ""

\* An exception in r propagates; otherwise the computation goes on with the
\* value r returned.
Bind(r, Then(_)) == IF Raised(r) THEN r ELSE Then(r.val)

-----------------------------------------------------------------------------
(* The src location string: "start:length:fileId" *)

Digits == {"0", "1", "2", "3", "4", "5", "6", "7", "8", "9"}

DigitVal(c) ==
    CASE c = "0" -> 0 [] c = "1" -> 1 [] c = "2" -> 2 [] c = "3" -> 3
      [] c = "4" -> 4 [] c = "5" -> 5 [] c = "6" -> 6 [] c = "7" -> 7
      [] c = "8" -> 8 [] c = "9" -> 9

\* str.split(":"): the fields between the colons, always at least one field.
RECURSIVE Split(_)
Split(s) ==
    IF \A i \in 1..Len(s) : s[i] # ":"
    THEN <<s>>
    ELSE LET i == CHOOSE j \in 1..Len(s) :
                      s[j] = ":" /\ \A k \in 1..(j - 1) : s[k] # ":"
         IN  <<SubSeq(s, 1, i - 1)>> \o Split(SubSeq(s, i + 1, Len(s)))

RECURSIVE DecimalValue(_)
DecimalValue(f) ==
    IF f = <<>> THEN 0
    ELSE 10 * DecimalValue(SubSeq(f, 1, Len(f) - 1)) + DigitVal(f[Len(f)])

\* int(field): an optional sign and one or more decimal digits; anything else
\* is a ValueError.  (int() also accepts surrounding blanks and underscores
\* between digits; the strings of this model hold neither.)
IntBody(f) == IF f # <<>> /\ f[1] \in {"-", "+"} THEN Tail(f) ELSE f

IsIntLiteral(f) ==
    /\ IntBody(f) # <<>>
    /\ \A i \in 1..Len(IntBody(f)) : IntBody(f)[i] \in Digits

IntOf(f) ==
    IF f # <<>> /\ f[1] = "-" THEN 0 - DecimalValue(IntBody(f))
    ELSE DecimalValue(IntBody(f))

\* ParseSrc with a missing field read as 0 instead of an IndexError.
ParseSrc_Defaulting(a) ==
    IF "src" \notin DOMAIN a THEN Raise("KeyError")
    ELSE IF a["src"].t # "chars" THEN Raise("AttributeError")
    ELSE LET parts == Split(a["src"].c)
         IN  IF \E i \in 1..Len(parts) : ~IsIntLiteral(parts[i])
             THEN Raise("ValueError")
             ELSE LET src == [i \in 1..3 |->
                                 IF i <= Len(parts) THEN IntOf(parts[i]) ELSE 0]
                  IN  Return([offset |-> <<src[1], src[1] + src[2]>>,
                              contract_id |-> src[3]])

\* Lines 27-29 of NodeBase.__init__: every field is converted, then the first
\* three are read.
ParseSrc(a) ==
    IF "src" \notin DOMAIN a THEN Raise("KeyError")
    ELSE IF a["src"].t # "chars" THEN Raise("AttributeError")
    ELSE LET parts == Split(a["src"].c)
         IN  IF \E i \in 1..Len(parts) : ~IsIntLiteral(parts[i])
             THEN Raise("ValueError")
             ELSE IF Len(parts) < 3 THEN Raise("IndexError")
             ELSE LET src == [i \in 1..Len(parts) |-> IntOf(parts[i])]
                  IN  Return([offset |-> <<src[1], src[1] + src[2]>>,
                              contract_id |-> src[3]])

-----------------------------------------------------------------------------
(* Building the tree: node_class_factory and NodeBase.__init__ *)

\* The table of solcast/grammar.py, from base type to the node types under it.
BASE_NODE_TYPES ==
    [Declaration |-> {"ContractDefinition", "FunctionDefinition"},
     Statement |-> {"Block", "ExpressionStatement"},
     Primary |-> {"Identifier"}]

\* len(v) of a built-in value.  A str of the model is atomic, so only the empty
\* one has a length here; no other str is ever asked for its length.
HasLen(v) == v.t \in {"list", "tuple", "dict", "chars", "str"}

LenOf(v) ==
    CASE v.t = "list" -> Len(v.items)
      [] v.t = "tuple" -> Len(v.tup)
      [] v.t = "dict" -> Cardinality(DOMAIN v.d)
      [] v.t = "chars" -> Len(v.c)
      [] v.t = "str" /\ v.s = "" -> 0

\* bool(v) of a value that holds no node: the JSON values __init__ tests.
RawTruth(v) ==
    CASE v.t = "None" -> FALSE
      [] v.t = "bool" -> v.b
      [] v.t = "int" -> v.i # 0
      [] v.t = "str" -> v.s # ""
      [] OTHER -> LenOf(v) # 0

\* The parent a node is constructed under: its identity and its depth.
NoParent == [id |-> NoNode, depth |-> -1]

\* Line 33: isinstance(value, dict) and value.get("nodeType") == "Block"
IsBlockDict(value) ==
    /\ value.t = "dict"
    /\ "nodeType" \in DOMAIN value.d
    /\ value.d["nodeType"] = PyStr("Block")

\* Lines 33-36: a Block becomes its statements; an empty "body" becomes [].
NormalizeValue(key, value) ==
    IF IsBlockDict(value)
    THEN IF "statements" \in DOMAIN value.d
         THEN Return(value.d["statements"])
         ELSE Raise("KeyError")
    ELSE IF key = "body" /\ ~RawTruth(value) THEN Return(PyList(<<>>))
    ELSE Return(value)

\* Lines 232-233 of node_class_factory: "body" is renamed to "nodes".
RenameBody(d) ==
    IF "body" \in DOMAIN d
    THEN [k \in (DOMAIN d \ {"body"}) \cup {"nodes"} |->
              IF k = "nodes" THEN d["body"] ELSE d[k]]
    ELSE d

\* Lines 235-237: the base type of the node type, when the table has one.
AddBaseNodeType(d) ==
    LET base == {k \in DOMAIN BASE_NODE_TYPES :
                     d["nodeType"].t = "str"
                     /\ d["nodeType"].s \in BASE_NODE_TYPES[k]}
    IN  IF base = {} THEN d
        ELSE [k \in DOMAIN d \cup {"baseNodeType"} |->
                  IF k = "baseNodeType" THEN PyStr(CHOOSE b \in base : TRUE)
                  ELSE d[k]]

RECURSIVE node_class_factory(_, _, _)
RECURSIVE NodeBase_init(_, _, _, _)
RECURSIVE InitAttr(_, _, _, _)

\* One pass of the loop of lines 32-47 for one key: the attribute's value, the
\* nodes built under it and which of them are children of this node.
InitAttr(key, value, self, id) ==
    LET norm == NormalizeValue(key, value)
    IN  IF Raised(norm) THEN Raise(norm.exc)
        ELSE IF norm.val.t = "dict"
        THEN LET item == node_class_factory(norm.val, self, Append(id, <<key, 0>>))
             IN  IF Raised(item) THEN Raise(item.exc)
                 ELSE [exc |-> "", val |-> item.val, nodes |-> item.nodes,
                       kids |-> IF item.val.t = "node" THEN {item.val.id} ELSE {}]
        ELSE IF norm.val.t = "list"
        THEN LET n == Len(norm.val.items)
                 built == {<<i, node_class_factory(norm.val.items[i], self,
                                                   Append(id, <<key, i>>))>> :
                              i \in 1..n}
                 item(i) == (CHOOSE b \in built : b[1] = i)[2]
             IN  IF \E b \in built : Raised(b[2])
                 THEN Raise(item(CHOOSE i \in 1..n :
                                     /\ Raised(item(i))
                                     /\ \A j \in 1..(i - 1) : ~Raised(item(j))).exc)
                 ELSE [exc |-> "",
                       val |-> PyList([i \in 1..n |-> item(i).val]),
                       nodes |-> UNION {b[2].nodes : b \in built},
                       kids |-> {b[2].val.id :
                                     b \in {c \in built : c[2].val.t = "node"}}]
        ELSE [exc |-> "", val |-> norm.val, nodes |-> {}, kids |-> {}]

\* NodeBase.__init__(self, ast, parent), for the instance of class cls whose
\* identity is id.  The attributes are set key by key; an exception in any of
\* them ends the construction (the dict of the model has no key order, so of
\* several failing keys the one raised first is left open).
NodeBase_init(a, parent, id, cls) ==
    LET depth == IF parent.id # NoNode THEN parent.depth + 1 ELSE 0
        src == ParseSrc(a)
        self == [id |-> id, depth |-> depth]
        built == {<<key, InitAttr(key, a[key], self, id)>> : key \in DOMAIN a}
        attr(key) == (CHOOSE b \in built : b[1] = key)[2]
    IN  IF Raised(src) THEN Raise(src.exc)
        ELSE IF \E b \in built : Raised(b[2])
        THEN Raise((CHOOSE b \in built : Raised(b[2]))[2].exc)
        ELSE [exc |-> "",
              val |-> NodeRef(id),
              nodes |-> {[id |-> id,
                          cls |-> cls,
                          depth |-> depth,
                          parent |-> parent.id,
                          children |-> UNION {b[2].kids : b \in built},
                          offset |-> src.val.offset,
                          contract_id |-> src.val.contract_id,
                          fields |-> DOMAIN a,
                          attrs |-> [key \in DOMAIN a |-> attr(key).val]]}
                        \cup UNION {b[2].nodes : b \in built}]

\* node_class_factory(ast, parent).  The deep copy only keeps the tree from
\* sharing the caller's objects; values are immutable here.  The class of the
\* node is named after its node type, which must be a str for type() to
\* accept it.
node_class_factory(a, parent, id) ==
    IF a.t # "dict" \/ "nodeType" \notin DOMAIN a.d
    THEN [exc |-> "", val |-> a, nodes |-> {}]
    ELSE LET renamed == RenameBody(a.d)
             base_class == IF "nodes" \in DOMAIN renamed
                           THEN "IterableNodeBase" ELSE "NodeBase"
             tagged == AddBaseNodeType(renamed)
         IN  IF tagged["nodeType"].t # "str" THEN Raise("TypeError")
             ELSE NodeBase_init(tagged, parent, id, base_class)

-----------------------------------------------------------------------------
(* Attribute access: NodeBase.get and what it rests on *)

\* The node of the built tree with the given identity.
Node(id) == CHOOSE n \in tree.nodes : n.id = id

\* getattr(obj, k, None).  A node answers with the attribute __init__ set for
\* the JSON key k, or with one of the attributes lines 24-29 set; the keys of
\* this model never name a method or one of the remaining instance attributes.
\* A built-in value has no attribute of any name the model uses.
GetAttr(obj, k) ==
    IF obj.t # "node" THEN None
    ELSE LET n == Node(obj.id)
         IN  IF k \in DOMAIN n.attrs THEN n.attrs[k]
             ELSE IF k = "depth" THEN PyInt(n.depth)
             ELSE IF k = "contract_id" THEN PyInt(n.contract_id)
             ELSE IF k = "offset"
             THEN PyTuple(<<PyInt(n.offset[1]), PyInt(n.offset[2])>>)
             ELSE IF k = "_parent"
             THEN IF n.parent = NoNode THEN None ELSE NodeRef(n.parent)
             ELSE None

\* len(v): of a built-in value, or IterableNodeBase.__len__ (line 222).
RECURSIVE PyLen(_)
PyLen(v) ==
    IF v.t = "node"
    THEN IF Node(v.id).cls = "IterableNodeBase"
         THEN PyLen(Node(v.id).attrs["nodes"])
         ELSE Raise("TypeError")
    ELSE IF HasLen(v) THEN Return(LenOf(v))
    ELSE Raise("TypeError")

\* bool(v).  A node has no __bool__: a plain node is true, an iterable node is
\* true when its __len__ is not 0, and raises what its __len__ raises.
Truth(v) ==
    IF v.t = "node"
    THEN IF Node(v.id).cls = "IterableNodeBase"
         THEN Bind(PyLen(v), LAMBDA n : Return(n # 0))
         ELSE Return(TRUE)
    ELSE Return(RawTruth(v))

\* The loop of lines 201-205 over the names of the dotted key, from the i-th.
RECURSIVE Resolve(_, _, _)
Resolve(obj, names, i) ==
    IF i > Len(names) THEN obj
    ELSE Resolve(IF obj.t = "dict"
                 THEN IF names[i] \in DOMAIN obj.d THEN obj.d[names[i]] ELSE None
                 ELSE GetAttr(obj, names[i]),
                 names, i + 1)

\* NodeBase.get(self, key, default).  A key is None or a dotted name, given as
\* the sequence of the names between its dots.
get(self, key, default) ==
    IF key = None THEN Raise("TypeError")
    ELSE LET OrDefault(obj) ==
                 Bind(Truth(obj), LAMBDA truth : Return(IF truth THEN obj ELSE default))
         IN  OrDefault(Resolve(NodeRef(self), key.names, 1))

Key(names) == [t |-> "key", names |-> names]

-----------------------------------------------------------------------------
(* Filters: _check_filter, _check_filters, is_inside_offset *)

\* Python's == on two values: a bool is the int 0 or 1; everything else is
\* equal when it is the same value (nodes: the same node).
IsNumber(v) == v.t \in {"bool", "int"}
NumberOf(v) == IF v.t = "bool" THEN (IF v.b THEN 1 ELSE 0) ELSE v.i
PyEq(a, b) ==
    IF IsNumber(a) /\ IsNumber(b) THEN NumberOf(a) = NumberOf(b) ELSE a = b

is_inside_offset(inner, outer) ==
    /\ outer[1] <= inner[1]
    /\ inner[1] <= inner[2]
    /\ inner[2] <= outer[2]

\* A filter dict is the sequence of its (key, value) items, in dict order.
\* The two loops of _check_filter, from the i-th item: wanted = TRUE is the
\* loop over filters (an item must match), FALSE the loop over exclude.
RECURSIVE CheckItems(_, _, _, _)
CheckItems(node, items, i, wanted) ==
    IF i > Len(items) THEN Return(TRUE)
    ELSE Bind(get(node, Key(items[i][1]), None),
              LAMBDA got : IF PyEq(got, items[i][2]) # wanted THEN Return(FALSE)
                           ELSE CheckItems(node, items, i + 1, wanted))

_check_filter(node, filters, exclude) ==
    Bind(CheckItems(node, filters, 1, TRUE),
         LAMBDA matches : IF ~matches THEN Return(FALSE)
                          ELSE CheckItems(node, exclude, 1, FALSE))

\* An Optional[Offset] is <<>> (None) or <<start, stop>>.
RECURSIVE AnyFilter(_, _, _, _)
AnyFilter(node, filters, exclude, i) ==
    IF i > Len(filters) THEN Return(FALSE)
    ELSE Bind(_check_filter(node, filters[i], exclude),
              LAMBDA matches : IF matches THEN Return(TRUE)
                               ELSE AnyFilter(node, filters, exclude, i + 1))

_check_filters(required_offset, offset_limits, filters, exclude, node) ==
    IF required_offset # <<>> /\ ~is_inside_offset(required_offset, Node(node).offset)
    THEN Return(FALSE)
    ELSE IF offset_limits # <<>> /\ ~is_inside_offset(Node(node).offset, offset_limits)
    THEN Return(FALSE)
    ELSE AnyFilter(node, filters, exclude, 1)

-----------------------------------------------------------------------------
(* Descendant search: _find_children and NodeBase.children *)

\* The order in which a loop visits a set of nodes.  _children is a Python
\* set, so the code fixes no order: "hash" is one order, "reversed" its
\* opposite.
SeqOfSet(S) ==
    CHOOSE s \in [1..Cardinality(S) -> S] : \A x \in S : \E i \in DOMAIN s : s[i] = x

Reverse(s) == [i \in 1..Len(s) |-> s[Len(s) + 1 - i]]

IterationOrders == {"hash", "reversed"}

Iterate(S, order) == IF order = "hash" THEN SeqOfSet(S) ELSE Reverse(SeqOfSet(S))

\* filter_fn: _check_filters with the arguments children() bound to it.
filter_fn(pred, node) ==
    _check_filters(pred.required_offset, pred.offset_limits, pred.filters,
                   pred.exclude, node)

\* Decrement that leaves the depth as it is.
Decrement_Forgotten(depth) == depth

\* depth is None or an int; line 277 takes one off an int.
Decrement(depth) == IF depth = None THEN None ELSE PyInt(depth.i - 1)

RECURSIVE _find_children(_, _, _, _, _, _)
RECURSIVE ExtendFrom(_, _, _, _, _, _, _)
RECURSIVE FindBelow(_, _, _, _, _, _)

\* FindBelow without the early return of line 280-281: the search goes on
\* below a match whatever include_children says.
FindBelow_KeepsSearching(pred, include_parents, include_children, depth, node, order) ==
    Bind(ExtendFrom(pred, include_parents, include_children, depth,
                    Iterate(Node(node).children, order), 1, order),
         LAMBDA node_list :
             IF include_parents \/ node_list = <<>>
             THEN Bind(filter_fn(pred, node),
                       LAMBDA own : Return(IF own THEN <<node>> \o node_list
                                           ELSE node_list))
             ELSE Return(node_list))

\* The loop of lines 283-284 over the children kids, from the i-th.
ExtendFrom(pred, include_parents, include_children, depth, kids, i, order) ==
    IF i > Len(kids) THEN Return(<<>>)
    ELSE Bind(_find_children(pred, include_parents, include_children, depth,
                             kids[i], order),
              LAMBDA head :
                  Bind(ExtendFrom(pred, include_parents, include_children,
                                  depth, kids, i + 1, order),
                       LAMBDA rest : Return(head \o rest)))

\* Lines 280-287, with depth already decremented.
FindBelow(pred, include_parents, include_children, depth, node, order) ==
    Bind(IF include_children THEN Return(FALSE) ELSE filter_fn(pred, node),
         LAMBDA early :
             IF early THEN Return(<<node>>)
             ELSE Bind(ExtendFrom(pred, include_parents, include_children, depth,
                                  Iterate(Node(node).children, order), 1, order),
                       LAMBDA node_list :
                           IF include_parents \/ node_list = <<>>
                           THEN Bind(filter_fn(pred, node),
                                     LAMBDA own : Return(IF own THEN <<node>> \o node_list
                                                         ELSE node_list))
                           ELSE Return(node_list)))

_find_children(pred, include_parents, include_children, depth, node, order) ==
    IF depth # None /\ depth.i - 1 < 0
    THEN Bind(filter_fn(pred, node),
              LAMBDA own : Return(IF own THEN <<node>> ELSE <<>>))
    ELSE FindBelow(pred, include_parents, include_children, Decrement(depth),
                   node, order)

\* Lines 105-110: filters is None, one dict or a list of dicts; exclude_filter
\* is None or a dict.
FilterList(filters) ==
    IF filters = None THEN << <<>> >>
    ELSE IF filters.t = "dict" THEN <<filters.items>>
    ELSE filters.items

ExcludeDict(exclude_filter) ==
    IF exclude_filter = None THEN <<>> ELSE exclude_filter.items

FilterDict(items) == [t |-> "dict", items |-> items]

\* Lines 111-113: the arguments functools.partial binds to _check_filters.
BoundFilter(a) ==
    [required_offset |-> a.required_offset,
     offset_limits |-> a.offset_limits,
     filters |-> FilterList(a.filters),
     exclude |-> ExcludeDict(a.exclude_filter)]

\* StripSelf that drops the first node of the result without looking at it.
StripSelf_Unchecked(self, include_self, result) ==
    IF include_self \/ result = <<>> THEN result ELSE Tail(result)

\* Lines 116-118: the node itself is dropped from the front of the result.
StripSelf(self, include_self, result) ==
    IF include_self \/ result = <<>> \/ result[1] # self THEN result
    ELSE Tail(result)

\* NodeBase.children(self, depth, include_self, include_parents,
\* include_children, required_offset, offset_limits, filters, exclude_filter)
children(self, a, order) ==
    Bind(_find_children(BoundFilter(a), a.include_parents, a.include_children,
                        a.depth, self, order),
         LAMBDA result : Return(StripSelf(self, a.include_self, result)))

-----------------------------------------------------------------------------
(* Ancestor navigation: parents, parent, is_child_of, is_parent_of *)

\* "if filters": None and the empty dict are false.
HasFilters(filters) == filters # None /\ filters.items # <<>>

\* NormalizeDepth with the sign of a negative depth lost.
NormalizeDepth_SignLost(self, depth) ==
    IF depth < 0 THEN Node(self).depth - depth ELSE depth

\* Lines 131-132 and 158-159.
NormalizeDepth(self, depth) ==
    IF depth < 0 THEN Node(self).depth + depth ELSE depth

\* DepthOutOfRange that lets the node's own depth through.
DepthOutOfRange_OffByOne(self, depth) == depth > Node(self).depth \/ depth < 0

\* Lines 133 and 160.
DepthOutOfRange(self, depth) == depth >= Node(self).depth \/ depth < 0

\* The loop of lines 137-142, entered with the node the walk stands on.
RECURSIVE ParentsWalk(_, _, _, _)
ParentsWalk(from, depth, filters, node_list) ==
    LET parent == Node(from).parent
    IN  IF parent = NoNode THEN Raise("AttributeError")
        ELSE Bind(IF ~HasFilters(filters) THEN Return(TRUE)
                  ELSE _check_filter(parent, filters.items, <<>>),
                  LAMBDA keep :
                      IF Node(parent).depth = depth
                      THEN Return(IF keep THEN Append(node_list, parent) ELSE node_list)
                      ELSE ParentsWalk(parent, depth, filters,
                                       IF keep THEN Append(node_list, parent)
                                       ELSE node_list))

\* NodeBase.parents(self, depth, filters)
parents(self, depth, filters) ==
    IF HasFilters(filters) /\ filters.t # "dict" THEN Raise("TypeError")
    ELSE LET d == NormalizeDepth(self, depth)
         IN  IF DepthOutOfRange(self, d) THEN Raise("IndexError")
             ELSE ParentsWalk(self, d, filters, <<>>)

\* The loops of lines 164-167 and 169-172.
RECURSIVE ParentWalk(_, _, _)
ParentWalk(from, depth, filters) ==
    IF ~(Node(from).depth > depth) THEN Return(None)
    ELSE LET parent == Node(from).parent
         IN  IF HasFilters(filters)
             THEN Bind(_check_filter(parent, filters.items, <<>>),
                       LAMBDA hit : IF hit THEN Return(NodeRef(parent))
                                    ELSE ParentWalk(parent, depth, filters))
             ELSE IF Node(parent).depth = depth THEN Return(NodeRef(parent))
             ELSE ParentWalk(parent, depth, filters)

\* NodeBase.parent(self, depth, filters)
parent(self, depth, filters) ==
    IF HasFilters(filters) /\ filters.t # "dict" THEN Raise("TypeError")
    ELSE LET d == NormalizeDepth(self, depth)
         IN  IF DepthOutOfRange(self, d) THEN Raise("IndexError")
             ELSE ParentWalk(self, d, filters)

\* is_child_of that looks at the immediate parent only.
is_child_of_ParentOnly(self, node) ==
    IF Node(node).depth >= Node(self).depth THEN Return(FALSE)
    ELSE Return(Node(self).parent = node)

\* NodeBase.is_child_of(self, node)
is_child_of(self, node) ==
    IF Node(node).depth >= Node(self).depth THEN Return(FALSE)
    ELSE Bind(parent(self, Node(node).depth, None),
              LAMBDA p : Return(p = NodeRef(node)))

\* NodeBase.is_parent_of(self, node)
is_parent_of(self, node) ==
    IF Node(node).depth <= Node(self).depth THEN Return(FALSE)
    ELSE Bind(parent(node, Node(self).depth, None),
              LAMBDA p : Return(p = NodeRef(self)))

\* IterableNodeBase.__len__(self), line 222.
IterableNodeBase_len(self) == PyLen(Node(self).attrs["nodes"])

\* list(IterableNodeBase.__iter__(self)), line 219: what iterating the node
\* yields.  Iterating a dict yields its keys, in an order the model leaves open.
IterableNodeBase_iter(self) ==
    LET nodes == Node(self).attrs["nodes"]
    IN  IF nodes.t = "list" THEN Return(nodes.items)
        ELSE IF nodes.t = "dict" THEN Return(SeqOfSet(DOMAIN nodes.d))
        ELSE IF nodes.t = "str" /\ nodes.s = "" THEN Return(<<>>)
        ELSE Raise("TypeError")

-----------------------------------------------------------------------------
(* The inputs: JSON objects in the shape of the compiler's AST *)

MaxChain == 2       \* how deep Blocks nest inside Blocks in a document
MaxFields == 4      \* how many colon-separated fields a src string has
MaxDepthArg == 2    \* the depth arguments run over -MaxDepthArg..MaxDepthArg

DigitChar(d) == CHOOSE c \in Digits : DigitVal(c) = d

RECURSIVE IntChars(_)
IntChars(n) ==
    IF n < 10 THEN <<DigitChar(n)>>
    ELSE Append(IntChars(n \div 10), DigitChar(n % 10))

\* The location "start:length:0".
Loc(start, length) == PyChars(IntChars(start) \o <<":">> \o IntChars(length) \o <<":", "0">>)

\* The values an attribute of a leaf takes: the falsy values and two others.
LeafValues ==
    {None, PyBool(FALSE), PyInt(0), PyStr(""), PyList(<<>>), EmptyDict,
     PyInt(7), PyStr("x")}

TypeDescriptions ==
    PyDict([typeString |-> PyStr("uint"), typeIdentifier |-> PyStr("")])

Identifier(start, value) ==
    PyDict([nodeType |-> PyStr("Identifier"), src |-> Loc(start, 1),
            name |-> PyStr("x"), value |-> value,
            typeDescriptions |-> TypeDescriptions])

ExpressionStatement(start, value) ==
    PyDict([nodeType |-> PyStr("ExpressionStatement"), src |-> Loc(start, 2),
            expression |-> Identifier(start, value)])

\* A node whose type name is the empty string.
Unnamed(start) == PyDict([nodeType |-> PyStr(""), src |-> Loc(start, 1)])

Block(start, length, statements) ==
    PyDict([nodeType |-> PyStr("Block"), src |-> Loc(start, length),
            statements |-> PyList(statements)])

\* The statements of a Block that holds a chain of k nested Blocks: the Block of
\* the next level, followed by the siblings sib; the innermost holds tail.
RECURSIVE Chain(_, _, _, _)
Chain(k, level, tail, sib) ==
    IF k = 0 THEN tail
    ELSE <<Block(2 * level, 20 - 2 * level, Chain(k - 1, level + 1, tail, sib))>> \o sib

Tails == {<<>>, <<ExpressionStatement(14, PyInt(7))>>, <<Unnamed(14)>>}
Siblings == {<<>>, <<Block(30, 1, <<>>)>>}
RootTypes == {"ContractDefinition", "Block"}

FunctionDefinition(body) ==
    PyDict([nodeType |-> PyStr("FunctionDefinition"), src |-> Loc(1, 38),
            name |-> PyStr("f"), body |-> body])

\* A function without a "body" key at all.
FunctionDeclaration ==
    PyDict([nodeType |-> PyStr("FunctionDefinition"), src |-> Loc(1, 38),
            name |-> PyStr("f")])

\* Trees: a root holding one function, whose body is a Block of a chain.
TreeDocs ==
    {PyDict([nodeType |-> PyStr(T), src |-> Loc(0, 40), name |-> PyStr("C"),
             nodes |-> PyList(<<FunctionDefinition(Block(1, 30, Chain(k, 1, tail, sib)))>>)]) :
        T \in RootTypes, k \in 0..MaxChain, tail \in Tails, sib \in Siblings}

\* The bodies of a function: none, the empty ones, and Blocks.
Bodies ==
    {None, EmptyDict, PyList(<<>>), Block(2, 9, <<>>),
     Block(2, 9, <<ExpressionStatement(3, PyInt(0))>>)}

\* An if statement whose branch is a function, with or without a body, and
\* whose condition is a leaf.
BodyDocs ==
    {PyDict([nodeType |-> PyStr("IfStatement"), src |-> Loc(0, 40),
             condition |-> Identifier(0, v),
             trueBody |-> f, falseBody |-> None]) :
        v \in LeafValues,
        f \in {FunctionDefinition(b) : b \in Bodies} \cup {FunctionDeclaration}}

\* The src strings: up to MaxFields fields, joined by colons.
SrcFields == {<<>>, <<"7">>, <<"1", "2">>, <<"x">>}

RECURSIVE SrcStrings(_)
SrcStrings(n) ==
    IF n = 1 THEN SrcFields
    ELSE SrcStrings(n - 1) \cup
         {s \o <<":">> \o f : s \in SrcStrings(n - 1), f \in SrcFields}

Leaf(src) == PyDict([nodeType |-> PyStr("Identifier"), src |-> PyChars(src)])

\* A leaf with an arbitrary src string, alone or as the child of a sound root.
SrcDocs ==
    {Leaf(s) : s \in SrcStrings(MaxFields)} \cup
    {PyDict([nodeType |-> PyStr("Block"), src |-> Loc(0, 40),
             statements |-> PyList(<<Leaf(s)>>)]) : s \in SrcStrings(MaxFields)}

Documents == TreeDocs \cup BodyDocs \cup SrcDocs

-----------------------------------------------------------------------------
(* The arguments of the queries *)

TypeNames == {"", "Block", "Identifier", "ContractDefinition"}

ByType(T) == FilterDict(<< <<(<<"nodeType">>), PyStr(T)>> >>)

FilterListOf(dicts) == [t |-> "list", items |-> dicts]

NoStatements == FilterDict(<< <<(<<"statements">>), PyList(<<>>)>> >>)

NamedX ==
    << <<(<<"nodeType">>), PyStr("ExpressionStatement")>>,
       <<(<<"expression", "name">>), PyStr("x")>> >>

Predicate(required_offset, offset_limits, filters, exclude_filter) ==
    [required_offset |-> required_offset, offset_limits |-> offset_limits,
     filters |-> filters, exclude_filter |-> exclude_filter]

Predicates ==
    {Predicate(<<>>, <<>>, None, None)}
    \cup {Predicate(<<>>, <<>>, ByType(T), None) : T \in TypeNames}
    \cup {Predicate(<<>>, <<>>, FilterListOf(<<ByType("Block").items>>), NoStatements),
          Predicate(<<>>, <<>>, FilterListOf(<<ByType("Block").items, NamedX>>), None),
          Predicate(<<14, 15>>, <<>>, None, None),
          Predicate(<<>>, <<2, 20>>, ByType("Block"), None)}

DepthArgs == {None} \cup {PyInt(k) : k \in 0..MaxDepthArg}

ChildrenArgs ==
    {[depth |-> d, include_self |-> s, include_parents |-> p,
      include_children |-> c, required_offset |-> q.required_offset,
      offset_limits |-> q.offset_limits, filters |-> q.filters,
      exclude_filter |-> q.exclude_filter] :
        d \in DepthArgs, s \in BOOLEAN, p \in BOOLEAN, c \in BOOLEAN,
        q \in Predicates}

AncestorDepths == (0 - MaxDepthArg)..MaxDepthArg

AncestorFilters ==
    {None, FilterDict(<<>>), ByType("Block"), ByType("FunctionDefinition"),
     FilterListOf(<<ByType("Block").items>>)}

GetKeys ==
    {None} \cup
    {Key(names) : names \in
        {<<"nodeType">>, <<"name">>, <<"nodes">>, <<"statements">>,
         <<"expression">>, <<"expression", "value">>,
         <<"expression", "typeDescriptions", "typeIdentifier">>,
         <<"expression", "typeDescriptions", "typeString">>,
         <<"condition", "value">>, <<"condition", "value", "name">>,
         <<"trueBody">>, <<"trueBody", "name">>, <<"falseBody">>,
         <<"missing">>, <<"missing", "name">>, <<"depth">>,
         <<"_parent", "nodeType">>}}

GetDefaults == {None, PyInt(1)}

-----------------------------------------------------------------------------
(* The state machine: the build, then a query on the built tree.  No query  *)
(* changes the tree, so a run makes one.                                   *)

NoCall == [op |-> "none"]
NoTree == [exc |-> "", val |-> None, nodes |-> {}]

Init ==
    /\ ast \in Documents
    /\ tree = NoTree
    /\ pc = "new"
    /\ call = NoCall
    /\ ret = Return(None)

\* root = node_class_factory(ast, None): the tree, or the exception that ends
\* the build and leaves the caller without any node.
Build ==
    /\ pc = "new"
    /\ LET built == node_class_factory(ast, NoParent, RootId)
       IN  IF Raised(built)
           THEN /\ tree' = [exc |-> built.exc, val |-> None, nodes |-> {}]
                /\ pc' = "failed"
           ELSE /\ tree' = built
                /\ pc' = "built"
    /\ UNCHANGED <<ast, call, ret>>

NodeIds == {n.id : n \in tree.nodes}

Children ==
    /\ pc = "built"
    /\ \E self \in NodeIds, a \in ChildrenArgs, order \in IterationOrders :
          /\ call' = [op |-> "children", self |-> self, args |-> a]
          /\ ret' = children(self, a, order)
    /\ pc' = "returned"
    /\ UNCHANGED <<ast, tree>>

Parents ==
    /\ pc = "built"
    /\ \E self \in NodeIds, depth \in AncestorDepths, filters \in AncestorFilters :
          /\ call' = [op |-> "parents", self |-> self, depth |-> depth,
                      filters |-> filters]
          /\ ret' = parents(self, depth, filters)
    /\ pc' = "returned"
    /\ UNCHANGED <<ast, tree>>

Parent ==
    /\ pc = "built"
    /\ \E self \in NodeIds, depth \in AncestorDepths, filters \in AncestorFilters :
          /\ call' = [op |-> "parent", self |-> self, depth |-> depth,
                      filters |-> filters]
          /\ ret' = parent(self, depth, filters)
    /\ pc' = "returned"
    /\ UNCHANGED <<ast, tree>>

IsChildOf ==
    /\ pc = "built"
    /\ \E self \in NodeIds, node \in NodeIds :
          /\ call' = [op |-> "is_child_of", self |-> self, node |-> node]
          /\ ret' = is_child_of(self, node)
    /\ pc' = "returned"
    /\ UNCHANGED <<ast, tree>>

IsParentOf ==
    /\ pc = "built"
    /\ \E self \in NodeIds, node \in NodeIds :
          /\ call' = [op |-> "is_parent_of", self |-> self, node |-> node]
          /\ ret' = is_parent_of(self, node)
    /\ pc' = "returned"
    /\ UNCHANGED <<ast, tree>>

Get ==
    /\ pc = "built"
    /\ \E self \in NodeIds, key \in GetKeys, default \in GetDefaults :
          /\ call' = [op |-> "get", self |-> self, key |-> key,
                      default |-> default]
          /\ ret' = get(self, key, default)
    /\ pc' = "returned"
    /\ UNCHANGED <<ast, tree>>

\* len(node) and list(node) of an iterable node.
LenAndIter ==
    /\ pc = "built"
    /\ \E self \in {n.id : n \in {m \in tree.nodes : m.cls = "IterableNodeBase"}} :
          /\ call' = [op |-> "len", self |-> self]
          /\ ret' = [len |-> IterableNodeBase_len(self),
                     iter |-> IterableNodeBase_iter(self)]
    /\ pc' = "returned"
    /\ UNCHANGED <<ast, tree>>

Next ==
    \/ Build
    \/ Children
    \/ Parents
    \/ Parent
    \/ IsChildOf
    \/ IsParentOf
    \/ Get
    \/ LenAndIter

Spec == Init /\ [][Next]_vars

-----------------------------------------------------------------------------
(* What the properties speak of *)

Range(s) == {s[i] : i \in 1..Len(s)}
NoDuplicates(s) == Cardinality(Range(s)) = Len(s)

\* A node's identity is its path, so its ancestors are the proper prefixes of
\* the path and its distance from the root is the length of the path.
AncestorAt(id, d) == SubSeq(id, 1, d)
ProperAncestors(id) == {AncestorAt(id, d) : d \in 0..(Len(id) - 1)}
IsBelow(id, top) == Len(id) > Len(top) /\ AncestorAt(id, Len(top)) = top
NodeTypeOf(id) == Node(id).attrs["nodeType"].s

\* children() with every argument at its default.
DefaultArgs ==
    [depth |-> None, include_self |-> FALSE, include_parents |-> TRUE,
     include_children |-> TRUE, required_offset |-> <<>>, offset_limits |-> <<>>,
     filters |-> None, exclude_filter |-> None]

\* The build keeps the links consistent: depth and _parent agree with the
\* path, and _children holds exactly the nodes one step below.
TreeIsWellFormed ==
    pc # "new" =>
        \A n \in tree.nodes :
            /\ n.depth = Len(n.id)
            /\ n.parent = (IF n.id = RootId THEN NoNode ELSE AncestorAt(n.id, Len(n.id) - 1))
            /\ n.children = {m.id : m \in {x \in tree.nodes : x.parent = n.id}}

-----------------------------------------------------------------------------
(* C1 *)

TypeQuery(T) ==
    /\ call.op = "children"
    /\ call.self = RootId
    /\ call.args = [DefaultArgs EXCEPT !.filters = ByType(T)]

\* C1 as stated: root.children(filters={"nodeType": T}), everything else at its
\* default, returns each node of the tree whose nodeType is T exactly once,
\* and nothing else.
C1_AllNodesOfType ==
    \A T \in TypeNames :
        TypeQuery(T) =>
            /\ ~Raised(ret)
            /\ NoDuplicates(ret.val)
            /\ Range(ret.val) = {id \in NodeIds : NodeTypeOf(id) = T}

\* C1 amended: for a non-empty type name T the call returns each node other
\* than the root whose nodeType is T exactly once, and nothing else (the
\* root is dropped, include_self being False); for the empty type name it
\* returns nothing.
C1_NodesOfTypeBelowRoot ==
    \A T \in TypeNames :
        TypeQuery(T) =>
            /\ ~Raised(ret)
            /\ NoDuplicates(ret.val)
            /\ Range(ret.val) =
                   IF T = "" THEN {}
                   ELSE {id \in NodeIds : id # RootId /\ NodeTypeOf(id) = T}

\* The root is a Block, the query is for Blocks, and Blocks below the root at
\* two depths are returned.
C1_Witness ==
    /\ TypeQuery("Block")
    /\ NodeTypeOf(RootId) = "Block"
    /\ ~Raised(ret)
    /\ \E i, j \in 1..Len(ret.val) : Len(ret.val[i]) # Len(ret.val[j])

-----------------------------------------------------------------------------
(* C2 *)

\* The statements of a Block node, as built.
StatementsOf(id) == Node(id).attrs["statements"]

BlocksBelow(self) ==
    {id \in NodeIds : IsBelow(id, self) /\ NodeTypeOf(id) = "Block"}

\* C2 as stated: children(filters=[{"nodeType": "Block"}],
\* exclude_filter={"statements": []}) returns every Block below the starting
\* node whose statements are not empty, and no Block whose statements are.
C2_EmptyBlocksExcluded ==
    (/\ call.op = "children"
     /\ call.args = [DefaultArgs EXCEPT
                        !.filters = FilterListOf(<<ByType("Block").items>>),
                        !.exclude_filter = NoStatements])
    => /\ ~Raised(ret)
       /\ \A id \in BlocksBelow(call.self) :
              id \in Range(ret.val) <=> StatementsOf(id) # PyList(<<>>)

-----------------------------------------------------------------------------
(* C3 *)

\* The value a dotted key resolves to, step by step: unresolved as soon as a
\* step finds no such attribute or item.
Unresolved == [t |-> "unresolved"]

StepInto(obj, k) ==
    IF obj.t = "dict"
    THEN IF k \in DOMAIN obj.d THEN obj.d[k] ELSE Unresolved
    ELSE IF obj.t = "node"
    THEN IF k \in DOMAIN Node(obj.id).attrs THEN Node(obj.id).attrs[k]
         ELSE IF k = "depth" THEN PyInt(Len(obj.id))
         ELSE IF k = "_parent" /\ obj.id # RootId
         THEN NodeRef(AncestorAt(obj.id, Len(obj.id) - 1))
         ELSE IF k = "_parent" THEN None
         ELSE Unresolved
    ELSE Unresolved

RECURSIVE Resolved(_, _, _)
Resolved(obj, names, i) ==
    IF i > Len(names) \/ obj = Unresolved THEN obj
    ELSE Resolved(StepInto(obj, names[i]), names, i + 1)

\* The falsy values: None, False, 0, the empty str, list, tuple and dict, and
\* an iterable node whose nodes are empty.
IsFalsy(v) ==
    \/ v \in {None, PyBool(FALSE), PyInt(0), PyStr(""), PyList(<<>>),
              PyTuple(<<>>), EmptyDict}
    \/ /\ v.t = "node"
       /\ Node(v.id).cls = "IterableNodeBase"
       /\ Node(v.id).attrs["nodes"] \in {PyList(<<>>), EmptyDict, PyStr("")}

\* C3 as stated: get(None, d) raises TypeError; get(p, d) returns d when a
\* step of p is unresolved or the resolved value is falsy, and the resolved
\* value itself in every other case.
C3_GetOrDefault ==
    call.op = "get" =>
        IF call.key = None THEN ret = Raise("TypeError")
        ELSE LET v == Resolved(NodeRef(call.self), call.key.names, 1)
             IN  ret = Return(IF v = Unresolved \/ IsFalsy(v) THEN call.default
                              ELSE v)

-----------------------------------------------------------------------------
(* C4 and C5 *)

\* The depth argument as the code reads it: a negative one counts from the
\* node's own depth.
NormalizedDepth(id, depth) == IF depth < 0 THEN Len(id) + depth ELSE depth

DepthInRange(id, depth) ==
    /\ 0 <= NormalizedDepth(id, depth)
    /\ NormalizedDepth(id, depth) < Len(id)

IsDictOrNone(filters) == filters = None \/ filters.t = "dict"
IsNoFilter(filters) == filters \in {None, FilterDict(<<>>)}

\* C4: without a filter, parent(depth) returns the ancestor at exactly the
\* normalized depth when that depth is at least 0 and less than the node's
\* own; parent(-1) of a node other than the root is its immediate parent;
\* with a depth out of that range the call raises IndexError, whatever the
\* filter dict.
C4_ParentAtDepth ==
    (call.op = "parent" /\ IsDictOrNone(call.filters)) =>
        IF DepthInRange(call.self, call.depth)
        THEN /\ IsNoFilter(call.filters) =>
                    ret = Return(NodeRef(AncestorAt(call.self,
                                     NormalizedDepth(call.self, call.depth))))
             /\ (IsNoFilter(call.filters) /\ call.depth = -1) =>
                    ret = Return(NodeRef(Node(call.self).parent))
        ELSE ret = Raise("IndexError")

\* parent(-2) of a node three levels down returned its grandparent.
C4_Witness ==
    /\ call.op = "parent"
    /\ call.filters = None
    /\ call.depth = -2
    /\ Len(call.self) = 3
    /\ ret = Return(NodeRef(AncestorAt(call.self, 1)))

\* The ancestors of id from its parent up to the one at depth d, nearest first.
AncestorsDownTo(id, d) == [i \in 1..(Len(id) - d) |-> AncestorAt(id, Len(id) - i)]

\* A node satisfies a filter dict when each of its keys names an attribute of
\* the node that holds the value asked for.
Satisfies(id, filters) ==
    \A i \in 1..Len(filters.items) :
        LET v == Resolved(NodeRef(id), filters.items[i][1], 1)
        IN  v # Unresolved /\ v = filters.items[i][2]

\* C5: with the normalized depth d in range, parents(depth) returns, nearest
\* first, the ancestors from the immediate parent up to the one at depth d:
\* all of them without a filter, those that satisfy the filter with one.
C5_ParentsDownToDepth ==
    (/\ call.op = "parents"
     /\ IsDictOrNone(call.filters)
     /\ DepthInRange(call.self, call.depth))
    => LET d == NormalizedDepth(call.self, call.depth)
           all == AncestorsDownTo(call.self, d)
       IN  /\ ~Raised(ret)
           /\ IsNoFilter(call.filters) => (ret.val = all /\ Len(ret.val) = Len(call.self) - d)
           /\ ~IsNoFilter(call.filters) =>
                  ret.val = SelectSeq(all, LAMBDA a : Satisfies(a, call.filters))
           /\ \A i \in 1..Len(ret.val) : Len(ret.val[i]) >= d

\* parents(1, {"nodeType": "Block"}) of a node four levels down kept some of
\* its three ancestors at depth 1 or more and dropped another.
C5_Witness ==
    /\ call.op = "parents"
    /\ call.filters = ByType("Block")
    /\ call.depth = 1
    /\ Len(call.self) = 4
    /\ ~Raised(ret)
    /\ Len(ret.val) \in {1, 2}

-----------------------------------------------------------------------------
(* C6 *)

IsProperAncestor(b, a) == Len(b) < Len(a) /\ AncestorAt(a, Len(b)) = b

\* C6: for two different nodes a and b, a.is_child_of(b) is b.is_parent_of(a),
\* it is true exactly when b is a proper ancestor of a, and a.is_child_of(b)
\* and a.is_parent_of(b) are never both true.
C6_ChildOfIsParentOf ==
    /\ (call.op = "is_child_of" /\ call.self # call.node) =>
           /\ ret = is_parent_of(call.node, call.self)
           /\ ret = Return(IsProperAncestor(call.node, call.self))
           /\ ~(ret = Return(TRUE) /\ is_parent_of(call.self, call.node) = Return(TRUE))
    /\ (call.op = "is_parent_of" /\ call.self # call.node) =>
           /\ ret = is_child_of(call.node, call.self)
           /\ ret = Return(IsProperAncestor(call.self, call.node))
           /\ ~(ret = Return(TRUE) /\ is_child_of(call.self, call.node) = Return(TRUE))

\* a.is_child_of(b) was true of an ancestor b two or more levels above a.
C6_Witness ==
    /\ call.op = "is_child_of"
    /\ ret = Return(TRUE)
    /\ Len(call.self) >= Len(call.node) + 2

-----------------------------------------------------------------------------
(* C7 *)

InSubtree(id, top) == id = top \/ IsBelow(id, top)

\* C7: children(depth=k, include_self=True), everything else at its default,
\* returns the node itself first and then, each once, the nodes of its
\* subtree at distance at most k from it; with k = 0 that is the node alone.
C7_WithinDepth ==
    (/\ call.op = "children"
     /\ call.args.depth # None
     /\ call.args = [DefaultArgs EXCEPT !.depth = call.args.depth,
                                        !.include_self = TRUE])
    => LET k == call.args.depth.i
       IN  /\ ~Raised(ret)
           /\ ret.val # <<>>
           /\ ret.val[1] = call.self
           /\ NoDuplicates(ret.val)
           /\ Range(ret.val) =
                  {id \in NodeIds : /\ InSubtree(id, call.self)
                                    /\ Len(id) - Len(call.self) <= k}
           /\ k = 0 => ret.val = <<call.self>>

\* children(depth=1, include_self=True) returned a node and its children and
\* left out a node further down.
C7_Witness ==
    /\ call.op = "children"
    /\ call.args = [DefaultArgs EXCEPT !.depth = PyInt(1), !.include_self = TRUE]
    /\ ~Raised(ret)
    /\ Len(ret.val) >= 2
    /\ \E id \in NodeIds : IsBelow(id, call.self) /\ id \notin Range(ret.val)

-----------------------------------------------------------------------------
(* C8 *)

\* The JSON objects the build makes (or tries to make) a node from: the
\* object itself, and the objects among its values and the elements of its
\* list values, a Block value standing for its statements.
RECURSIVE NodeObjects(_)
NodeObjects(v) ==
    IF v.t = "list" THEN UNION {NodeObjects(v.items[i]) : i \in 1..Len(v.items)}
    ELSE IF v.t # "dict" \/ "nodeType" \notin DOMAIN v.d THEN {}
    ELSE {v} \cup
         UNION {NodeObjects(IF IsBlockDict(v.d[k]) THEN v.d[k].d["statements"]
                            ELSE v.d[k]) : k \in DOMAIN v.d}

SrcFieldsOf(obj) == Split(obj.d["src"].c)

HasNonInteger(fields) == \E i \in 1..Len(fields) : ~IsIntLiteral(fields[i])

\* Not exactly three fields, or a field that is not an integer.
Malformed(obj) == Len(SrcFieldsOf(obj)) # 3 \/ HasNonInteger(SrcFieldsOf(obj))

\* Fewer than three fields, or a field that is not an integer.
Unreadable(obj) == Len(SrcFieldsOf(obj)) < 3 \/ HasNonInteger(SrcFieldsOf(obj))

\* C8 as stated: a malformed src string anywhere in the input makes the whole
\* build fail, and no node is produced.
C8_MalformedSrcFails ==
    (pc # "new" /\ \E obj \in NodeObjects(ast) : Malformed(obj))
    => (pc = "failed" /\ tree.nodes = {})

\* C8 amended: a src string with fewer than three fields or with a field that
\* is not an integer, anywhere in the input, makes the whole build fail with
\* an IndexError or a ValueError and no node is produced; otherwise the build
\* succeeds, a node's location is read from the first three fields of its src
\* string and the fields after them are ignored.
C8_UnreadableSrcFails ==
    pc # "new" =>
        IF \E obj \in NodeObjects(ast) : Unreadable(obj)
        THEN /\ pc = "failed"
             /\ tree.nodes = {}
             /\ tree.exc \in {"IndexError", "ValueError"}
        ELSE /\ pc # "failed"
             /\ RootId \in NodeIds
             /\ LET f == SrcFieldsOf(ast)
                IN  /\ Node(RootId).offset = <<IntOf(f[1]), IntOf(f[1]) + IntOf(f[2])>>
                    /\ Node(RootId).contract_id = IntOf(f[3])

\* The root's own src is sound and its child's src has too few fields: the
\* build of the whole tree failed.
C8_Witness ==
    /\ pc = "failed"
    /\ tree.exc = "IndexError"
    /\ ~Unreadable(ast)
    /\ Cardinality(NodeObjects(ast)) = 2

-----------------------------------------------------------------------------
(* C9 *)

Matches(a, id) == filter_fn(BoundFilter(a), id) = Return(TRUE)

-----------------------------------------------------------------------------
(* C10 *)

\* The node built from the function an if statement holds as its true branch.
TrueBody == << <<"trueBody", 0>> >>

HasEmptyBody(obj) ==
    /\ obj.t = "dict"
    /\ "trueBody" \in DOMAIN obj.d
    /\ "body" \in DOMAIN obj.d["trueBody"].d
    /\ obj.d["trueBody"].d["body"] \in {None, EmptyDict, PyList(<<>>)}

\* C10 as stated: the node built from an object whose "body" is present but
\* empty (null, {} or []) is an iterable node whose nodes are not left as null:
\* its length is 0 and iterating it yields nothing.
C10_EmptyBodyIsEmptySequence ==
    (call.op = "len" /\ call.self = TrueBody /\ HasEmptyBody(ast))
    => /\ Node(TrueBody).cls = "IterableNodeBase"
       /\ Node(TrueBody).attrs["nodes"] # None
       /\ ret.len = Return(0)
       /\ ret.iter = Return(<<>>)

====
